---------------------------- MODULE Spec2Model ----------------------------
(***************************************************************************)
(* Model of the heating dashboard: script.js (the plotting page: timestamp *)
(* parsing, series construction, windowed metrics, summary panel) and      *)
(* data_script.js (the data-entry page).                                   *)
(*                                                                         *)
(* Conventions.                                                            *)
(*  - Instants and durations are whole seconds: every instant the model    *)
(*    produces is a whole number of seconds, so a getTime() value of the   *)
(*    source is the model's value times 1000 and the source's 3600000 ms   *)
(*    per hour is Hour = 3600 of the model's units.  Instants are local    *)
(*    wall-clock seconds since 1970-01-01T00:00 (no zone offset, no DST).  *)
(*  - Fractional numbers (litres, currency, rates) are exact rationals     *)
(*    [n, d] in lowest terms with d > 0: the products of the source are    *)
(*    modelled without floating-point rounding.                            *)
(*  - null is the empty tuple Null; a present value v is Some(v) = <<v>>.  *)
(***************************************************************************)
EXTENDS Integers, Sequences, FiniteSets, TLC

VARIABLES
    pc,                 \* position of the page / harness
    dateStr, timeStr,   \* parseTimestamp: arguments of the last call
    ts,                 \* parseTimestamp: value returned by the last call
    lenientDays,        \* Date engine: TRUE when a day up to 31 is accepted in any month
    tables,             \* parsed CSV tables handed to buildDataStructure
    motorData,          \* script.js global: motor id -> series
    minTime, maxTime,   \* bounds returned by buildDataStructure
    heatingData,        \* script.js global: set of motor ids whose flag is truthy
    dieselPrice,        \* script.js global
    dieselConsumption,  \* script.js global
    store,              \* localStorage entries read by the page
    dataArr, startTime, endTime,   \* computeMetrics: arguments of the last call
    frame,              \* computeMetrics: locals of the last call at its return
    metrics,            \* computeMetrics: value returned by the last call
    startInput, endInput,   \* the instants shown in the two date-time inputs
    activeMotors,       \* motor buttons carrying the class "active"
    cards,              \* updateMetrics: motor id -> metrics shown on its card
    summary,            \* updateSummaryPanel: what the last call put in the panel
    files,              \* data page: group key -> text of the selected file, or Null
    checked,            \* data page: motor ids whose heating checkbox is checked
    priceInput, consumptionInput,   \* data page: texts of the two rate inputs
    pending,            \* submit handler: the counter of reads not yet completed
    results,            \* submit handler: group key -> text gathered so far
    reading,            \* group keys whose FileReader has fired no event yet
    navigations         \* assignments made to window.location.href

parseVars == <<dateStr, timeStr, ts>>
buildVars == <<tables, motorData, minTime, maxTime>>
rateVars == <<dieselPrice, dieselConsumption>>
callVars == <<dataArr, frame, metrics>>
windowVars == <<startTime, endTime>>
pageVars == <<heatingData, store, startInput, endInput, activeMotors, cards, summary>>

formVars == <<files, checked, priceInput, consumptionInput>>
uploadVars == <<pending, results, reading, navigations>>

vars == <<pc, lenientDays, parseVars, buildVars, rateVars, callVars, windowVars, pageVars,
          formVars, uploadVars>>

----------------------------------------------------------------------------
(* Values shared by all parts                                              *)

Null == <<>>
Some(v) == <<v>>

Abs(x) == IF x < 0 THEN 0 - x ELSE x

RECURSIVE Gcd(_, _)
Gcd(a, b) == IF b = 0 THEN a ELSE Gcd(b, a % b)

\* the rational n/d in lowest terms, d > 0
Rat(n, d) ==
    LET g == Gcd(Abs(n), Abs(d))
        s == IF d < 0 THEN 0 - 1 ELSE 1
    IN  [n |-> (s * n) \div g, d |-> (s * d) \div g]

RInt(k) == [n |-> k, d |-> 1]
RZero == RInt(0)
RMul(a, b) == Rat(a.n * b.n, a.d * b.d)
RAdd(a, b) == Rat(a.n * b.d + b.n * a.d, a.d * b.d)

\* the set of sequences over S of length 0..k
SeqUpTo(S, k) == UNION {[1..m -> S] : m \in 0..k}

----------------------------------------------------------------------------
(* computeMetrics (script.js 147-193)                                      *)

HourMs == 3600000
Hour == HourMs \div 1000

AvailabilityThreshold == 50
EconomyThreshold == 40
ProjectionDays == 30

\* p => p.t >= startTime && p.t <= endTime
InRange_strict(p, start, end) == p.t > start /\ p.t < end
InRange(p, start, end) == p.t >= start /\ p.t <= end

Filtered(arr, start, end) == SelectSeq(arr, LAMBDA p : InRange(p, start, end))

\* prev.value > 50 && curr.value > 50
AvailOk_geq(prev, curr) ==
    prev.value >= AvailabilityThreshold /\ curr.value >= AvailabilityThreshold
AvailOk(prev, curr) ==
    prev.value > AvailabilityThreshold /\ curr.value > AvailabilityThreshold

\* prev.value > 40 && curr.value > 40
EconOk(prev, curr) ==
    prev.value > EconomyThreshold /\ curr.value > EconomyThreshold

\* the for loop: locals after the iterations i .. filtered.length - 1
RECURSIVE Walk(_, _, _, _, _)
Walk(filtered, i, prev, availabilityMs, economiaMs) ==
    IF i > Len(filtered)
    THEN [availabilityMs |-> availabilityMs, economiaMs |-> economiaMs]
    ELSE LET curr == filtered[i]
             dt == curr.t - prev.t
         IN  Walk(filtered, i + 1, curr,
                  IF AvailOk(prev, curr) THEN availabilityMs + dt ELSE availabilityMs,
                  IF EconOk(prev, curr) THEN economiaMs + dt ELSE economiaMs)

\* String(n).padStart(2, '0') of a non-negative integer
Pad2(n) == IF n < 10 THEN "0" \o ToString(n) ELSE ToString(n)

\* availHours, availMinutes and the text built from them; the minutes are the
\* whole minutes of the fraction of an hour (floating-point rounding not modelled)
FormatAvailability(availabilityMs) ==
    LET availHours == availabilityMs \div Hour
        availMinutes == ((availabilityMs % Hour) * 60) \div Hour
    IN  Pad2(availHours) \o ":" \o Pad2(availMinutes) \o " h"

ZeroMetrics ==
    [availability |-> "00:00 h", economiaLitros |-> RZero, economiaRS |-> RZero,
     economiaMes |-> RZero, lastTemperature |-> Null]

EmptyFrame == [filtered |-> <<>>, availabilityMs |-> 0, economiaMs |-> 0]

\* the locals of a call at its return
Locals(arr, start, end) ==
    LET filtered == Filtered(arr, start, end)
    IN  IF Len(arr) = 0 \/ Len(filtered) = 0
        THEN EmptyFrame
        ELSE [filtered |-> filtered] @@ Walk(filtered, 2, filtered[1], 0, 0)

MonthlyFactor_span(start, end) == Rat(end - start, 24 * Hour)
MonthlyFactor(start, end) == RInt(ProjectionDays)

\* the value returned, the two globals read being price and consumption
Metrics(arr, start, end, price, consumption) ==
    LET f == Locals(arr, start, end)
    IN  IF Len(f.filtered) = 0
        THEN ZeroMetrics
        ELSE LET economiaLitros == RMul(Rat(f.economiaMs, Hour), consumption)
                 economiaRS == RMul(economiaLitros, price)
                 economiaMes == RMul(economiaRS, MonthlyFactor(start, end))
             IN  [availability |-> FormatAvailability(f.availabilityMs),
                  economiaLitros |-> economiaLitros,
                  economiaRS |-> economiaRS,
                  economiaMes |-> economiaMes,
                  lastTemperature |-> Some(f.filtered[Len(f.filtered)].value)]

computeMetrics(arr, start, end) == Metrics(arr, start, end, dieselPrice, dieselConsumption)

----------------------------------------------------------------------------
(* parseTimestamp (script.js 29-61).  A date text is a sequence of          *)
(* one-character strings; a time text is one of the strings of TimeTexts.   *)

NaN == <<>>

Digits == {"0", "1", "2", "3", "4", "5", "6", "7", "8", "9"}

DigitValue(c) ==
    CASE c = "0" -> 0 [] c = "1" -> 1 [] c = "2" -> 2 [] c = "3" -> 3 [] c = "4" -> 4
      [] c = "5" -> 5 [] c = "6" -> 6 [] c = "7" -> 7 [] c = "8" -> 8 [] c = "9" -> 9

\* dateStr.split(/[\/\-]/): the parts between the separators, empty parts kept
RECURSIVE SplitFrom(_, _, _, _)
SplitFrom(text, i, cur, acc) ==
    IF i > Len(text) THEN Append(acc, cur)
    ELSE IF text[i] \in {"/", "-"}
         THEN SplitFrom(text, i + 1, <<>>, Append(acc, cur))
         ELSE SplitFrom(text, i + 1, Append(cur, text[i]), acc)

Split(text) == SplitFrom(text, 1, <<>>, <<>>)

\* parseInt(part, 10): the value of the longest prefix of digits, NaN when there
\* is none (the texts of the model carry no sign and no leading blank)
RECURSIVE ParseDigits(_, _, _)
ParseDigits(part, i, acc) ==
    IF i > Len(part) \/ part[i] \notin Digits THEN acc
    ELSE ParseDigits(part, i + 1, acc * 10 + DigitValue(part[i]))

parseInt(part) ==
    IF part = <<>> \/ part[1] \notin Digits THEN NaN
    ELSE Some(ParseDigits(part, 1, 0))

\* the three branches that choose day and month
Resolve_dayFirst(p1, p2, p3) ==
    IF p1 > 12 /\ p2 <= 12
    THEN [day |-> p1, month |-> p2, year |-> p3]
    ELSE IF p2 > 12 /\ p1 <= 12
         THEN [month |-> p1, day |-> p2, year |-> p3]
         ELSE [day |-> p1, month |-> p2, year |-> p3]
Resolve(p1, p2, p3) ==
    IF p2 > 12 /\ p1 <= 12
    THEN [month |-> p1, day |-> p2, year |-> p3]
    ELSE IF p1 > 12 /\ p2 <= 12
         THEN [day |-> p1, month |-> p2, year |-> p3]
         ELSE [month |-> p1, day |-> p2, year |-> p3]

\* if (year < 100) year += 2000
NormalizeYear(year) == IF year < 100 THEN year + 2000 ELSE year

\* timeStr.trim()
Trim(text) == CASE text = " 10:30:30 " -> "10:30:30" [] OTHER -> text

\* the time of day, in seconds, that Date reads after the "T"; NaN when the text
\* is no HH:mm or HH:mm:ss time
TimeOfDay(text) ==
    CASE text = "10:00" -> Some(36000)
      [] text = "10:30:30" -> Some(37830)
      [] OTHER -> NaN

IsLeap(y) == (y % 4 = 0 /\ y % 100 # 0) \/ y % 400 = 0

DaysInMonth(y, m) ==
    IF m = 2 THEN (IF IsLeap(y) THEN 29 ELSE 28)
    ELSE IF m \in {4, 6, 9, 11} THEN 30 ELSE 31

\* leap days in the years 1 .. y
LeapDaysThrough(y) == (y \div 4) - (y \div 100) + (y \div 400)

\* days from 1970-01-01 to day d of month m of year y (d may run past the month)
DayNumber(y, m, d) ==
    LET before == <<0, 31, 59, 90, 120, 151, 181, 212, 243, 273, 304, 334>>
    IN  365 * (y - 1970) + (LeapDaysThrough(y - 1) - LeapDaysThrough(1969))
        + before[m] + (IF m > 2 /\ IsLeap(y) THEN 1 ELSE 0) + (d - 1)

\* new Date(iso).getTime() for iso = YYYY-MM-DDT<time>: a local date-time, NaN
\* when iso is not such a date-time.  The year is written with at least 4 digits
\* and month and day with at least 2, so a year above 9999 or a month or day above
\* 99 does not fit the format.  ECMA-262 rejects a day past the end of the month;
\* an engine that only bounds the day by 31 reads it as the following month's day
\* (lenient = TRUE).
DateGetTime(year, month, day, time, lenient) ==
    IF /\ year <= 9999
       /\ month >= 1 /\ month <= 12
       /\ day >= 1 /\ day <= (IF lenient THEN 31 ELSE DaysInMonth(year, month))
       /\ TimeOfDay(time) # NaN
    THEN Some(DayNumber(year, month, day) * 86400 + TimeOfDay(time)[1])
    ELSE NaN

parseTimestamp(date, time) ==
    IF date = <<>> \/ time = "" THEN Null
    ELSE LET parts == Split(date)
         IN  IF Len(parts) < 3 THEN Null
             ELSE LET p1 == parseInt(parts[1])
                      p2 == parseInt(parts[2])
                      p3 == parseInt(parts[3])
                  IN  IF p1 = NaN \/ p2 = NaN \/ p3 = NaN THEN Null
                      ELSE LET r == Resolve(p1[1], p2[1], p3[1])
                               t == DateGetTime(NormalizeYear(r.year), r.month, r.day,
                                                Trim(time), lenientDays)
                           IN  IF t = NaN THEN Null ELSE t

----------------------------------------------------------------------------
(* buildDataStructure (script.js 102-137).  A row is the sequence of its    *)
(* [col, cell] entries in key order (Object.keys); a date cell is a         *)
(* sequence of characters, every other cell a string.                       *)

Finite(t) == [v |-> t]
Infinity == [inf |-> 1]
NegInfinity == [inf |-> 0 - 1]

\* a < b for a finite a and a bound b
LessThan(a, b) == IF b = Infinity THEN TRUE ELSE IF b = NegInfinity THEN FALSE ELSE a < b.v
GreaterThan(a, b) == IF b = NegInfinity THEN TRUE ELSE IF b = Infinity THEN FALSE ELSE a > b.v

HasKey(row, col) == \E i \in 1..Len(row) : row[i].col = col
Cell(row, col) == row[CHOOSE i \in 1..Len(row) : row[i].col = col].cell

\* row['$Date'] || row['Date'] || row['Data'] || row['data'] || ''
RECURSIVE FirstTruthy(_, _, _)
FirstTruthy(row, aliases, empty) ==
    IF aliases = <<>> THEN empty
    ELSE IF HasKey(row, Head(aliases)) /\ Cell(row, Head(aliases)) # empty
         THEN Cell(row, Head(aliases))
         ELSE FirstTruthy(row, Tail(aliases), empty)

DateOfRow(row) == FirstTruthy(row, <<"$Date", "Date", "Data", "data">>, <<>>)
TimeOfRow(row) == FirstTruthy(row, <<"$Time", "Time", "Hora", "hora">>, "")

\* /\$?(Date|Time|Data|Hora)/i.test(col), on the column names of the model
IsDateTimeColumn(col) ==
    col \in {"$Date", "Date", "Data", "data", "$Time", "Time", "Hora", "hora",
             "SCA01TimeAvg"}

\* col.match(/SCA(\d{2})/i) and parseInt(match[1], 10), on the column names of the
\* model; Null when there is no match
MotorOfColumn(col) ==
    CASE col = "SCA011TE402PV" -> Some(1)
      [] col = "SCA012TE402PV" -> Some(1)
      [] col = "SCA231TE402PV" -> Some(23)
      [] col = "sca241te402pv" -> Some(24)
      [] col = "SCA01TimeAvg" -> Some(1)
      [] OTHER -> Null

\* parseFloat(String(cell).replace(',', '.')), on the cell texts of the model
parseFloat(cell) ==
    CASE cell = "40" -> Some(40)
      [] cell = "45" -> Some(45)
      [] cell = "50" -> Some(50)
      [] cell = "51" -> Some(51)
      [] cell = "60" -> Some(60)
      [] cell = "41,0" -> Some(41)
      [] cell = "1" -> Some(1)
      [] OTHER -> NaN

\* motorData[motorId].push({ t: ts, value: value }), the series created on first use
Push(md, motorId, point) ==
    IF motorId \in DOMAIN md
    THEN [md EXCEPT ![motorId] = Append(@, point)]
    ELSE md @@ (motorId :> <<point>>)

\* whether the column's cell of the row becomes a sample
Accepted(row, i) ==
    /\ ~ IsDateTimeColumn(row[i].col)
    /\ row[i].cell # ""
    /\ parseFloat(row[i].cell) # NaN
    /\ MotorOfColumn(row[i].col) # Null

\* Object.keys(row).forEach: the columns i .. of a row whose timestamp is t
RECURSIVE AddCells(_, _, _, _)
AddCells(md, row, i, t) ==
    IF i > Len(row) THEN md
    ELSE AddCells(IF Accepted(row, i)
                  THEN Push(md, MotorOfColumn(row[i].col)[1],
                            [t |-> t, value |-> parseFloat(row[i].cell)[1]])
                  ELSE md,
                  row, i + 1, t)

\* the body of table.forEach for one row
AddRow_sampledOnly(acc, row) ==
    LET t == parseTimestamp(DateOfRow(row), TimeOfRow(row))
        md == IF t = Null THEN acc.motorData ELSE AddCells(acc.motorData, row, 1, t[1])
    IN  IF t = Null \/ md = acc.motorData THEN acc
        ELSE [motorData |-> md,
              minTime |-> IF LessThan(t[1], acc.minTime) THEN Finite(t[1]) ELSE acc.minTime,
              maxTime |-> IF GreaterThan(t[1], acc.maxTime) THEN Finite(t[1]) ELSE acc.maxTime]
AddRow(acc, row) ==
    LET t == parseTimestamp(DateOfRow(row), TimeOfRow(row))
    IN  IF t = Null THEN acc
        ELSE [motorData |-> AddCells(acc.motorData, row, 1, t[1]),
              minTime |-> IF LessThan(t[1], acc.minTime) THEN Finite(t[1]) ELSE acc.minTime,
              maxTime |-> IF GreaterThan(t[1], acc.maxTime) THEN Finite(t[1]) ELSE acc.maxTime]

RECURSIVE AddRows(_, _)
AddRows(acc, table) ==
    IF table = <<>> THEN acc ELSE AddRows(AddRow(acc, Head(table)), Tail(table))

RECURSIVE AddTables(_, _)
AddTables(acc, tbls) ==
    IF tbls = <<>> THEN acc ELSE AddTables(AddRows(acc, Head(tbls)), Tail(tbls))

\* arr with p put after the last element whose t is not above p.t
RECURSIVE InsertSorted(_, _)
InsertSorted(arr, p) ==
    IF arr = <<>> THEN <<p>>
    ELSE IF arr[Len(arr)].t <= p.t THEN Append(arr, p)
         ELSE Append(InsertSorted(SubSeq(arr, 1, Len(arr) - 1), p), arr[Len(arr)])

RECURSIVE SortFrom(_, _, _)
SortFrom(arr, i, acc) ==
    IF i > Len(arr) THEN acc ELSE SortFrom(arr, i + 1, InsertSorted(acc, arr[i]))

\* motorData[key].sort((a, b) => a.t - b.t): a stable sort by t
SortByT_none(arr) == arr
SortByT(arr) == SortFrom(arr, 1, <<>>)

buildDataStructure(tbls) ==
    LET acc == AddTables([motorData |-> <<>>, minTime |-> Infinity,
                          maxTime |-> NegInfinity], tbls)
    IN  [motorData |-> [key \in DOMAIN acc.motorData |-> SortByT(acc.motorData[key])],
         minTime |-> acc.minTime,
         maxTime |-> acc.maxTime]

----------------------------------------------------------------------------
(* Idle values of the parts a specification does not exercise              *)

DefaultPrice == Rat(530, 100)           \* let dieselPrice = 5.30
DefaultConsumption == Rat(630, 100)     \* let dieselConsumption = 6.30

EmptyStore ==
    [hasData |-> FALSE, groups |-> <<>>, heating |-> {},
     dieselPrice |-> "null", dieselConsumption |-> "null"]

IdleParse == dateStr = <<>> /\ timeStr = "" /\ ts = Null /\ lenientDays = FALSE
IdleBuild == tables = <<>> /\ motorData = <<>> /\ minTime = Null /\ maxTime = Null
IdleCall == dataArr = <<>> /\ startTime = 0 /\ endTime = 0
            /\ frame = EmptyFrame /\ metrics = Null
IdleUpload == /\ files = <<>> /\ checked = {}
              /\ priceInput = "" /\ consumptionInput = ""
              /\ pending = 0 /\ results = <<>> /\ reading = {} /\ navigations = 0
IdlePage == heatingData = {} /\ store = EmptyStore /\ summary = Null
            /\ startInput = Null /\ endInput = Null
            /\ activeMotors = {} /\ cards = <<>>

----------------------------------------------------------------------------
(* computeMetrics applied to bounded inputs                                *)

MaxLen == 3

SampleTimes == {0, 1800, 5400}
SampleValues == {40, 41, 50, 51}
SamplePoints == [t : SampleTimes, value : SampleValues]

IsSorted(arr) == \A i \in 1..(Len(arr) - 1) : arr[i].t <= arr[i + 1].t

\* series as buildDataStructure leaves them: sorted by t
SortedSeries == {arr \in SeqUpTo(SamplePoints, MaxLen) : IsSorted(arr)}

\* the arguments of a call and the two globals it reads, drawn before the call
InitMetrics ==
    /\ pc = "call"
    /\ dataArr \in SortedSeries
    /\ startTime \in SampleTimes
    /\ endTime \in SampleTimes
    /\ dieselPrice \in {DefaultPrice, RInt(4)}
    /\ dieselConsumption \in {DefaultConsumption, RInt(4)}
    /\ frame = EmptyFrame /\ metrics = Null
    /\ IdleParse /\ IdleBuild /\ IdlePage /\ IdleUpload

\* one call computeMetrics(dataArr, startTime, endTime), to its return
ComputeMetrics ==
    /\ pc = "call"
    /\ pc' = "returned"
    /\ frame' = Locals(dataArr, startTime, endTime)
    /\ metrics' = Some(computeMetrics(dataArr, startTime, endTime))
    /\ UNCHANGED <<formVars, uploadVars>>
    /\ UNCHANGED <<lenientDays, parseVars, buildVars, rateVars, dataArr, windowVars,
                   pageVars>>

NextMetrics == ComputeMetrics

SpecMetrics == InitMetrics /\ [][NextMetrics]_vars

----------------------------------------------------------------------------
(* buildDataStructure applied to bounded inputs                            *)

MaxRows == 3

Mar15 == <<"0", "3", "/", "1", "5", "/", "2", "4">>         \* mm/dd/yy
Mar15DayFirst == <<"1", "5", "/", "0", "3", "/", "2", "4">> \* dd/mm/yy, the same day
Mar04 == <<"0", "3", "-", "0", "4", "-", "2", "0", "2", "4">>
Mar16DayFirst == <<"1", "6", "/", "0", "3", "/", "2", "4">>
NoMonth == <<"x", "/", "1", "5", "/", "2", "4">>

E(col, cell) == [col |-> col, cell |-> cell]

\* two samples at 15 March 10:00, one column without a machine code
RowMar15 ==
    <<E("$Date", Mar15), E("$Time", "10:00"), E("SCA011TE402PV", "60"),
      E("sca241te402pv", "41,0"), E("Status", "1")>>
\* the same instant written day first, under other aliases
RowMar15DayFirst ==
    <<E("Data", Mar15DayFirst), E("Hora", "10:00"), E("SCA011TE402PV", "45")>>
\* an earlier instant, two columns of motor 1, an empty cell
RowMar04 ==
    <<E("$Date", Mar04), E("$Time", " 10:30:30 "), E("SCA011TE402PV", "51"),
      E("SCA012TE402PV", "50"), E("SCA231TE402PV", "")>>
\* no date: the row is skipped
RowNoDate == <<E("$Date", <<>>), E("$Time", "10:00"), E("SCA011TE402PV", "60")>>
\* a date that does not parse: the row is skipped
RowBadDate == <<E("Date", NoMonth), E("Time", "10:00"), E("SCA231TE402PV", "60")>>
\* a timestamp and no sample: a cell that is no number, a column named like a time
RowNoSample ==
    <<E("Date", Mar15), E("Time", " 10:30:30 "), E("SCA231TE402PV", "abc"),
      E("SCA01TimeAvg", "51")>>
\* the latest instant; the first date alias is empty, the next one is used
RowMar16 ==
    <<E("$Date", <<>>), E("data", Mar16DayFirst), E("hora", "10:00"),
      E("SCA231TE402PV", "50"), E("sca241te402pv", "60")>>

RowSamples ==
    {RowMar15, RowMar15DayFirst, RowMar04, RowNoDate, RowBadDate, RowNoSample, RowMar16}

\* the rows of a sequence dealt over two tables
TablesOf(rows) ==
    {<<SubSeq(rows, 1, k), SubSeq(rows, k + 1, Len(rows))>> : k \in 0..Len(rows)}

SampleTables == UNION {TablesOf(rows) : rows \in SeqUpTo(RowSamples, MaxRows)}

InitBuild ==
    /\ pc = "call"
    /\ tables \in SampleTables
    /\ lenientDays \in BOOLEAN
    /\ motorData = <<>> /\ minTime = Infinity /\ maxTime = NegInfinity
    /\ dateStr = <<>> /\ timeStr = "" /\ ts = Null
    /\ dieselPrice = DefaultPrice /\ dieselConsumption = DefaultConsumption
    /\ IdleCall /\ IdlePage /\ IdleUpload

\* one call buildDataStructure(tables), to its return
BuildDataStructure ==
    /\ pc = "call"
    /\ pc' = "returned"
    /\ LET r == buildDataStructure(tables)
       IN  motorData' = r.motorData /\ minTime' = r.minTime /\ maxTime' = r.maxTime
    /\ UNCHANGED <<formVars, uploadVars>>
    /\ UNCHANGED <<lenientDays, parseVars, tables, rateVars, callVars, windowVars,
                   pageVars>>

NextBuild == BuildDataStructure

SpecBuild == InitBuild /\ [][NextBuild]_vars

----------------------------------------------------------------------------
(* The plotting page (script.js 195-506): init, the two date-time inputs,   *)
(* the motor buttons, updateChart, updateMetrics, updateSummaryPanel.       *)
(* localStorage is the variable store; a group entry is Null when its text  *)
(* is absent or blank and Some(rows) when Papa.parse reads rows from it;    *)
(* the heating entry is the set of motor ids its JSON object maps to true.  *)

MotorCount == 23

\* parseFloat(localStorage.getItem(key)), on the stored texts of the model
\* ("null" stands for an absent entry)
parseFloatStored(text) ==
    CASE text = "4" -> Some(RInt(4))
      [] text = "2" -> Some(RInt(2))
      [] text = "-1" -> Some(RInt(0 - 1))
      [] OTHER -> NaN

\* if (!isNaN(stored)) rate = stored
LoadedRate(current, text) ==
    IF parseFloatStored(text) # NaN THEN parseFloatStored(text)[1] ELSE current

\* dtToLocalValue(ms) put in an input: the minute the instant falls in (seconds
\* omitted); an infinite bound formats to no date-time and leaves the input empty
dtToLocalValue(bound) ==
    IF bound \in {Infinity, NegInfinity} THEN Null ELSE Some((bound.v \div 60) * 60)

\* new Date(input.value).getTime(): NaN for an empty input
InputTime(value) == value

HasData(md, motorId) == motorId \in DOMAIN md /\ Len(md[motorId]) > 0

\* computeMetrics called with the window read from the inputs: every comparison
\* with NaN is false, so the filter keeps nothing
MetricsAt(arr, start, end, price, consumption) ==
    IF start = NaN \/ end = NaN
    THEN ZeroMetrics
    ELSE Metrics(arr, start[1], end[1], price, consumption)

\* updateMetrics: one card per selected motor
Cards(md, selected, start, end, price, consumption) ==
    [motorId \in selected |->
        MetricsAt(IF motorId \in DOMAIN md THEN md[motorId] ELSE <<>>,
                  start, end, price, consumption)]

\* for (let motorId = 1; motorId <= 23; motorId++) of updateSummaryPanel: the
\* motors flagged in heatingData that have data, from motorId on
RECURSIVE HeatingMotorsFrom(_, _, _)
HeatingMotorsFrom(md, hd, motorId) ==
    IF motorId > MotorCount THEN <<>>
    ELSE (IF motorId \in hd /\ HasData(md, motorId) THEN <<motorId>> ELSE <<>>)
         \o HeatingMotorsFrom(md, hd, motorId + 1)

\* let totalLitrosHeating = 0, totalRSHeating = 0, totalMonthlyProjection = 0
TotalStart_kept(field) == IF summary = Null THEN RZero ELSE summary[field]
TotalStart(field) == RZero

\* heatingMotors.forEach: the two totals after the motors i .. of the list
RECURSIVE HeatingTotals(_, _, _, _, _, _, _, _)
HeatingTotals(md, list, i, start, end, price, consumption, acc) ==
    IF i > Len(list) THEN acc
    ELSE LET m == MetricsAt(md[list[i]], start, end, price, consumption)
         IN  HeatingTotals(md, list, i + 1, start, end, price, consumption,
                           [litros |-> RAdd(acc.litros, m.economiaLitros),
                            rs |-> RAdd(acc.rs, m.economiaRS)])

\* the second loop over motorId = 1 .. 23: the monthly projection of every motor
\* with data, from motorId on
RECURSIVE MonthlyTotal(_, _, _, _, _, _, _)
MonthlyTotal(md, motorId, start, end, price, consumption, acc) ==
    IF motorId > MotorCount THEN acc
    ELSE MonthlyTotal(md, motorId + 1, start, end, price, consumption,
                      IF HasData(md, motorId)
                      THEN RAdd(acc, MetricsAt(md[motorId], start, end, price,
                                               consumption).economiaMes)
                      ELSE acc)

\* what updateSummaryPanel(startTime, endTime) writes in the panel
SummaryPanel(md, hd, start, end, price, consumption) ==
    LET heatingMotors == HeatingMotorsFrom(md, hd, 1)
        totals == HeatingTotals(md, heatingMotors, 1, start, end, price, consumption,
                                [litros |-> TotalStart("totalLitrosHeating"),
                                 rs |-> TotalStart("totalRSHeating")])
    IN  [heatingMotors |-> heatingMotors,
         totalLitrosHeating |-> totals.litros,
         totalRSHeating |-> totals.rs,
         totalMonthlyProjection |->
             MonthlyTotal(md, 1, start, end, price, consumption,
                          TotalStart("totalMonthlyProjection"))]

\* updateChart() with the given globals: the window is read from the inputs, then
\* updateMetrics and updateSummaryPanel run
UpdateChart(md, hd, price, consumption, startValue, endValue, selected) ==
    /\ startTime' = InputTime(startValue)
    /\ endTime' = InputTime(endValue)
    /\ cards' = Cards(md, selected, InputTime(startValue), InputTime(endValue),
                      price, consumption)
    /\ summary' = SummaryPanel(md, hd, InputTime(startValue), InputTime(endValue),
                               price, consumption)

\* document.querySelector('.motor-button:not([disabled])'): the first motor with data
FirstEnabled(md) ==
    LET enabled == {motorId \in 1..MotorCount : HasData(md, motorId)}
    IN  IF enabled = {} THEN {}
        ELSE {CHOOSE motorId \in enabled : \A other \in enabled : motorId <= other}

\* instants the user may type in an input
SampleInputs ==
    {Null,
     Some(DayNumber(2024, 3, 4) * 86400 + 37800),
     Some(DayNumber(2024, 3, 16) * 86400 + 36000)}

SampleGroups ==
    { <<Null, Null, Null, Null>>,
      <<Some(<<RowMar15, RowMar16>>), Null, Some(<<RowMar04>>), Null>>,
      <<Some(<<RowMar15DayFirst, RowBadDate>>), Null, Null, Null>>,
      <<Null, Some(<<RowNoDate, RowNoSample>>), Null, Null>>,
      <<Null, Null, Null, Some(<<RowMar04>>)>> }

SampleStores ==
    {EmptyStore}
    \cup [hasData : {TRUE}, groups : SampleGroups, heating : SUBSET {1, 2, 24},
          dieselPrice : {"null", "abc", "-1"}, dieselConsumption : {"null", "2"}]

\* the state when the page's script has run, before DOMContentLoaded (the dates of
\* the sample rows are calendar dates, which every engine reads alike)
Init ==
    /\ pc = "loading"
    /\ store \in SampleStores
    /\ dieselPrice = DefaultPrice /\ dieselConsumption = DefaultConsumption
    /\ motorData = <<>> /\ heatingData = {}
    /\ tables = <<>> /\ minTime = Infinity /\ maxTime = NegInfinity
    /\ startInput = Null /\ endInput = Null
    /\ startTime = NaN /\ endTime = NaN
    /\ activeMotors = {} /\ cards = <<>> /\ summary = Null
    /\ IdleParse /\ IdleUpload
    /\ dataArr = <<>> /\ frame = EmptyFrame /\ metrics = Null

\* init(), the DOMContentLoaded handler
PageInit ==
    /\ pc = "loading"
    /\ LET csv == SelectSeq(store.groups, LAMBDA g : g # Null)
       IN  IF ~ store.hasData
           THEN /\ pc' = "nodata"
                /\ UNCHANGED <<buildVars, rateVars, windowVars, pageVars>>
           ELSE IF csv = <<>>
           THEN /\ pc' = "empty"
                /\ UNCHANGED <<buildVars, rateVars, windowVars, pageVars>>
           ELSE LET parsedTables == [k \in 1..Len(csv) |-> csv[k][1]]
                    built == buildDataStructure(parsedTables)
                    price == LoadedRate(dieselPrice, store.dieselPrice)
                    consumption == LoadedRate(dieselConsumption, store.dieselConsumption)
                    first == FirstEnabled(built.motorData)
                IN  /\ pc' = "ready"
                    /\ tables' = parsedTables
                    /\ motorData' = built.motorData
                    /\ minTime' = built.minTime
                    /\ maxTime' = built.maxTime
                    /\ heatingData' = store.heating
                    /\ dieselPrice' = price
                    /\ dieselConsumption' = consumption
                    /\ startInput' = dtToLocalValue(built.minTime)
                    /\ endInput' = dtToLocalValue(built.maxTime)
                    /\ activeMotors' = first
                    /\ UpdateChart(built.motorData, store.heating, price, consumption,
                                   dtToLocalValue(built.minTime),
                                   dtToLocalValue(built.maxTime), first)
                    /\ UNCHANGED store
    /\ UNCHANGED <<formVars, uploadVars>>
    /\ UNCHANGED <<lenientDays, parseVars, callVars>>

\* the user types an instant in the start input
EditStart ==
    /\ pc = "ready"
    /\ \E value \in SampleInputs : startInput' = value
    /\ UNCHANGED <<formVars, uploadVars>>
    /\ UNCHANGED <<pc, lenientDays, parseVars, buildVars, rateVars, callVars, windowVars,
                   heatingData, store, endInput, activeMotors, cards, summary>>

\* the user types an instant in the end input
EditEnd ==
    /\ pc = "ready"
    /\ \E value \in SampleInputs : endInput' = value
    /\ UNCHANGED <<formVars, uploadVars>>
    /\ UNCHANGED <<pc, lenientDays, parseVars, buildVars, rateVars, callVars, windowVars,
                   heatingData, store, startInput, activeMotors, cards, summary>>

\* click on an enabled motor button: toggle "active", then updateChart()
ToggleMotor ==
    /\ pc = "ready"
    /\ \E motorId \in 1..MotorCount :
           /\ HasData(motorData, motorId)
           /\ activeMotors' = IF motorId \in activeMotors
                              THEN activeMotors \ {motorId}
                              ELSE activeMotors \cup {motorId}
           /\ UpdateChart(motorData, heatingData, dieselPrice, dieselConsumption,
                          startInput, endInput, activeMotors')
    /\ UNCHANGED <<formVars, uploadVars>>
    /\ UNCHANGED <<pc, lenientDays, parseVars, buildVars, rateVars, callVars,
                   heatingData, store, startInput, endInput>>

\* click on updateRange: updateChart()
UpdateRange ==
    /\ pc = "ready"
    /\ UpdateChart(motorData, heatingData, dieselPrice, dieselConsumption,
                   startInput, endInput, activeMotors)
    /\ UNCHANGED <<formVars, uploadVars>>
    /\ UNCHANGED <<pc, lenientDays, parseVars, buildVars, rateVars, callVars,
                   heatingData, store, startInput, endInput, activeMotors>>

Next == PageInit \/ EditStart \/ EditEnd \/ ToggleMotor \/ UpdateRange

Spec == Init /\ [][Next]_vars

----------------------------------------------------------------------------
(* The data page (data_script.js): one press of the submit button and the   *)
(* events of the file reads it starts.  A group key is its position 1..4 in *)
(* fileInputs; a text is Null when blank and Some(rows) when it is CSV.     *)

GroupCount == 4

GroupKeys == 1..GroupCount

BlankText == Null

\* if (pending === 0) proceed()
Barrier_lastOrBefore(p) == p <= 1
Barrier(p) == p = 0

\* what proceed() leaves in localStorage, given the texts gathered in res
StoredBy(res) ==
    [hasData |-> TRUE,
     groups |-> [key \in GroupKeys |-> IF key \in DOMAIN res THEN res[key] ELSE BlankText],
     heating |-> {motorId \in 1..MotorCount : motorId \in checked},
     dieselPrice |-> IF parseFloatStored(priceInput) # NaN
                     THEN priceInput ELSE store.dieselPrice,
     dieselConsumption |-> IF parseFloatStored(consumptionInput) # NaN
                           THEN consumptionInput ELSE store.dieselConsumption]

\* proceed(): persist, then window.location.href = 'index.html'
Proceed(res) ==
    /\ store' = StoredBy(res)
    /\ navigations' = navigations + 1
    /\ pc' = "navigated"

\* pending-- and the test that follows it, in readerLoaded and in reader.onerror
Completed(key, text) ==
    /\ key \in reading
    /\ reading' = reading \ {key}
    /\ results' = (key :> text) @@ results
    /\ pending' = pending - 1
    /\ IF Barrier(pending - 1)
       THEN Proceed((key :> text) @@ results)
       ELSE UNCHANGED <<pc, store, navigations>>
    /\ UNCHANGED <<lenientDays, parseVars, buildVars, rateVars, callVars, windowVars,
                   heatingData, startInput, endInput, activeMotors, cards, summary,
                   formVars>>

\* the files and the form a press may find
SampleFiles == [GroupKeys -> {Null, Some(BlankText), Some(Some(<<RowMar15>>))}]

InitUpload ==
    /\ pc = "idle"
    /\ files \in SampleFiles
    /\ checked \in {{}, {1}}
    /\ priceInput \in {"", "-1"}
    /\ consumptionInput \in {"", "2"}
    /\ pending = 0 /\ results = <<>> /\ reading = {} /\ navigations = 0
    /\ dieselPrice = DefaultPrice /\ dieselConsumption = DefaultConsumption
    /\ IdleParse /\ IdleBuild /\ IdleCall /\ IdlePage

\* the click handler of submitData, to its return
Submit ==
    /\ pc = "idle"
    /\ IF \A key \in GroupKeys : files[key] = Null
       THEN /\ pc' = "alerted"
            /\ UNCHANGED <<store, uploadVars>>
       ELSE LET started == {key \in GroupKeys : files[key] # Null}
                res == [key \in GroupKeys \ started |-> BlankText]
            IN  /\ pending' = Cardinality(started)
                /\ reading' = started
                /\ results' = res
                /\ IF Barrier(Cardinality(started))
                   THEN Proceed(res)
                   ELSE pc' = "reading" /\ UNCHANGED <<store, navigations>>
    /\ UNCHANGED <<lenientDays, parseVars, buildVars, rateVars, callVars, windowVars,
                   heatingData, startInput, endInput, activeMotors, cards, summary,
                   formVars>>

\* reader.onload = (e) => readerLoaded(key, e)
ReaderLoad ==
    \E key \in GroupKeys :
        /\ files[key] # Null
        /\ Completed(key, files[key][1])

\* reader.onerror
ReaderError ==
    \E key \in GroupKeys :
        /\ files[key] # Null
        /\ Completed(key, BlankText)

NextUpload == Submit \/ ReaderLoad \/ ReaderError

SpecUpload == InitUpload /\ [][NextUpload]_vars

----------------------------------------------------------------------------
(* Statements about computeMetrics, written from the window and the series *)
(* alone (no use of the loop above)                                        *)

\* indices of the points of arr inside the inclusive window [start, end]
InWindow(arr, start, end) ==
    {i \in 1..Len(arr) : start <= arr[i].t /\ arr[i].t <= end}

\* pairs of in-window indices with no in-window index between them
ConsecutivePairs(arr, start, end) ==
    LET W == InWindow(arr, start, end)
    IN  {p \in W \X W : p[1] < p[2] /\ ~ \E k \in W : p[1] < k /\ k < p[2]}

\* the consecutive pairs whose two values both exceed the threshold
PairsAbove(arr, start, end, threshold) ==
    {p \in ConsecutivePairs(arr, start, end) :
        arr[p[1]].value > threshold /\ arr[p[2]].value > threshold}

RECURSIVE SumIntervals(_, _)
SumIntervals(arr, P) ==
    IF P = {} THEN 0
    ELSE LET p == CHOOSE q \in P : TRUE
         IN  (arr[p[2]].t - arr[p[1]].t) + SumIntervals(arr, P \ {p})

\* the points of arr at the indices of W, in order, from index i on
RECURSIVE PointsAt(_, _, _)
PointsAt(arr, W, i) ==
    IF i > Len(arr) THEN <<>>
    ELSE (IF i \in W THEN <<arr[i]>> ELSE <<>>) \o PointsAt(arr, W, i + 1)

\* hours and minutes as text, "HH:MM h"
HoursMinutes(seconds) ==
    LET h == seconds \div 3600
        m == (seconds - h * 3600) \div 60
    IN  (IF h < 10 THEN "0" ELSE "") \o ToString(h) \o ":"
        \o (IF m < 10 THEN "0" ELSE "") \o ToString(m) \o " h"

\* C1: the availability duration is the sum of curr.t - prev.t over exactly the
\* consecutive in-window pairs whose two values are both strictly above 50, it is
\* what the returned text shows, and a window with one point gives zero.
C1_AvailabilityIsSumOfPairsAbove50 ==
    pc = "returned" =>
        LET avail == SumIntervals(dataArr, PairsAbove(dataArr, startTime, endTime, 50))
        IN  /\ frame.availabilityMs = avail
            /\ metrics[1].availability = HoursMinutes(avail)
            /\ (Cardinality(InWindow(dataArr, startTime, endTime)) = 1
                    => frame.availabilityMs = 0)

\* C1 witness: three in-window points, one pair above 50 counted and one pair with
\* an endpoint at exactly 50 not counted.
C1_Witness ==
    /\ pc = "returned"
    /\ Len(frame.filtered) = 3
    /\ frame.filtered[1].value = 51 /\ frame.filtered[2].value = 51
    /\ frame.filtered[3].value = 50
    /\ frame.filtered[1].t < frame.filtered[2].t
    /\ frame.filtered[2].t < frame.filtered[3].t
    /\ frame.availabilityMs = frame.filtered[2].t - frame.filtered[1].t

\* C2: savedLiters = savings-eligible hours x dieselConsumption, savedCurrency =
\* savedLiters x dieselPrice, projectedMonthlyCurrency = savedCurrency x 30 whatever
\* the window, the eligible duration being the sum over the consecutive in-window
\* pairs both above 40; one hour at 6.30 and 5.30 gives 6.30, 33.39 and 1001.70.
C2_SavingsFromEligibleHours ==
    pc = "returned" =>
        LET eligible == SumIntervals(dataArr, PairsAbove(dataArr, startTime, endTime, 40))
            litres == RMul(Rat(eligible, 3600), dieselConsumption)
            m == metrics[1]
        IN  /\ frame.economiaMs = eligible
            /\ m.economiaLitros = litres
            /\ m.economiaRS = RMul(litres, dieselPrice)
            /\ m.economiaMes = RMul(RMul(litres, dieselPrice), RInt(30))
            /\ (/\ eligible = 3600
                /\ dieselConsumption = Rat(630, 100)
                /\ dieselPrice = Rat(530, 100)
                => /\ m.economiaLitros = Rat(630, 100)
                   /\ m.economiaRS = Rat(3339, 100)
                   /\ m.economiaMes = Rat(100170, 100))

\* C2 witness: two points one hour apart, both above 40 (one of them not above 50),
\* default rates: 6.30 L, 33.39 and 1001.70.
C2_Witness ==
    /\ pc = "returned"
    /\ dataArr = <<[t |-> 1800, value |-> 41], [t |-> 5400, value |-> 51]>>
    /\ startTime = 0 /\ endTime = 5400
    /\ metrics[1].economiaLitros = Rat(630, 100)
    /\ metrics[1].economiaRS = Rat(3339, 100)
    /\ metrics[1].economiaMes = Rat(100170, 100)
    /\ frame.availabilityMs = 0

\* C4: exactly the points with start <= t <= end (both bounds included) are taken
\* into account, and with no such point (or an empty series) the result is the
\* fully populated zero result with lastValue null.
C4_InclusiveWindowAndZeroResult ==
    pc = "returned" =>
        LET W == InWindow(dataArr, startTime, endTime)
        IN  /\ frame.filtered = PointsAt(dataArr, W, 1)
            /\ (W = {} =>
                    metrics[1] = [availability |-> "00:00 h",
                                  economiaLitros |-> [n |-> 0, d |-> 1],
                                  economiaRS |-> [n |-> 0, d |-> 1],
                                  economiaMes |-> [n |-> 0, d |-> 1],
                                  lastTemperature |-> <<>>])
            /\ (W # {} =>
                    metrics[1].lastTemperature =
                        <<dataArr[CHOOSE i \in W : \A k \in W : k <= i].value>>)

\* C4 witness: a point at t = start and a point at t = end are both counted while a
\* third point lies outside the window.
C4_Witness ==
    /\ pc = "returned"
    /\ startTime < endTime
    /\ Len(dataArr) = 3 /\ Len(frame.filtered) = 2
    /\ frame.filtered[1].t = startTime
    /\ frame.filtered[2].t = endTime
    /\ frame.economiaMs = endTime - startTime

----------------------------------------------------------------------------
(* parseTimestamp applied to bounded inputs                                *)

MaxParts == 4

PartTexts ==
    {<<"0", "3">>, <<"0", "4">>, <<"1", "5">>, <<"3", "1">>, <<"2", "4">>,
     <<"2", "0", "2", "4">>}

\* parts that are not numbers: empty, a letter, digits followed by a letter
OddParts == {<<>>, <<"x">>, <<"2", "4", "x">>}

TimeTexts == {"", "10:00", " 10:30:30 ", "xx"}

RECURSIVE Join(_, _)
Join(parts, sep) ==
    IF Len(parts) = 1 THEN parts[1]
    ELSE parts[1] \o <<sep>> \o Join(Tail(parts), sep)

\* three parts of which exactly one is odd
OddDates ==
    {[ps EXCEPT ![k] = o] : ps \in [1..3 -> PartTexts], k \in 1..3, o \in OddParts}

DateTexts ==
    {<<>>}
    \cup {Join(ps, sep) : ps \in (SeqUpTo(PartTexts, MaxParts) \ {<<>>}) \cup OddDates,
                          sep \in {"/", "-"}}

InitParse ==
    /\ pc = "call"
    /\ dateStr \in DateTexts
    /\ timeStr \in TimeTexts
    /\ lenientDays \in BOOLEAN
    /\ ts = Null
    /\ dieselPrice = DefaultPrice /\ dieselConsumption = DefaultConsumption
    /\ IdleBuild /\ IdleCall /\ IdlePage /\ IdleUpload

\* one call parseTimestamp(dateStr, timeStr), to its return
ParseTimestamp ==
    /\ pc = "call"
    /\ pc' = "returned"
    /\ ts' = parseTimestamp(dateStr, timeStr)
    /\ UNCHANGED <<formVars, uploadVars>>
    /\ UNCHANGED <<dateStr, timeStr, lenientDays, buildVars, rateVars, callVars,
                   windowVars, pageVars>>

NextParse == ParseTimestamp

SpecParse == InitParse /\ [][NextParse]_vars

----------------------------------------------------------------------------
(* Statements about parseTimestamp, written from the date text's parts     *)

IsNumeric(part) == part # <<>> /\ \A i \in 1..Len(part) : part[i] \in Digits

\* the number a numeric part denotes, read from its last digit
RECURSIVE NumberOf(_)
NumberOf(part) ==
    IF part = <<>> THEN 0
    ELSE NumberOf(SubSeq(part, 1, Len(part) - 1)) * 10 + DigitValue(part[Len(part)])

\* the texts written as three numeric parts joined by one separator
ThreeNumericParts == [1..3 -> PartTexts]

SeparatorCount(text) == Cardinality({i \in 1..Len(text) : text[i] \in {"/", "-"}})

\* ps are the first three parts of text
StartsWithParts(text, ps) ==
    \E sep \in {"/", "-"} :
        LET head == Join(ps, sep)
        IN  \/ text = head
            \/ /\ Len(text) > Len(head)
               /\ SubSeq(text, 1, Len(head) + 1) = head \o <<sep>>

RuleMonth(p1, p2) ==
    IF p2 > 12 /\ p1 <= 12 THEN p1 ELSE IF p1 > 12 /\ p2 <= 12 THEN p2 ELSE p1
RuleDay(p1, p2) ==
    IF p2 > 12 /\ p1 <= 12 THEN p2 ELSE IF p1 > 12 /\ p2 <= 12 THEN p1 ELSE p2
RuleYear(p3) == IF p3 < 100 THEN p3 + 2000 ELSE p3

YearLength(y) ==
    IF y % 400 = 0 THEN 366 ELSE IF y % 100 = 0 THEN 365
    ELSE IF y % 4 = 0 THEN 366 ELSE 365

MonthLength(y, m) ==
    CASE m \in {1, 3, 5, 7, 8, 10, 12} -> 31
      [] m \in {4, 6, 9, 11} -> 30
      [] m = 2 -> YearLength(y) - 337

RECURSIVE DaysOfYears(_, _)
DaysOfYears(from, to) ==
    IF from >= to THEN 0 ELSE YearLength(from) + DaysOfYears(from + 1, to)

RECURSIVE DaysOfMonths(_, _)
DaysOfMonths(y, m) ==
    IF m <= 1 THEN 0 ELSE MonthLength(y, m - 1) + DaysOfMonths(y, m - 1)

\* seconds from 1970-01-01T00:00 to 00:00 of day d (counted from the 1st) of m/y
MidnightOf(y, m, d) == (DaysOfYears(1970, y) + DaysOfMonths(y, m) + (d - 1)) * 86400

\* seconds into the day of the time texts that are times
ClockOf(text) ==
    CASE text = "10:00" -> 10 * 3600
      [] text = " 10:30:30 " -> 10 * 3600 + 30 * 60 + 30

IsTime(text) == text \in {"10:00", " 10:30:30 "}

IsCalendarDate(y, m, d) ==
    y >= 1 /\ y <= 9999 /\ m >= 1 /\ m <= 12 /\ d >= 1 /\ d <= MonthLength(y, m)

\* C8: for three numeric parts p1, p2, p3 and a non-empty time, month and day
\* follow the precedence (p2 > 12 and p1 <= 12: month p1, day p2; else p1 > 12 and
\* p2 <= 12: day p1, month p2; else month p1, day p2) and a year below 100 gets
\* 2000 added: a returned instant is that day's time, a valid date and time is
\* never refused, and 15/03/24 and 03/15/24 are both 15 March 2024.
C8_DayMonthPrecedence ==
    pc = "returned" /\ timeStr # "" /\ SeparatorCount(dateStr) = 2 =>
        \A ps \in ThreeNumericParts :
            (\E sep \in {"/", "-"} : dateStr = Join(ps, sep)) =>
                LET p1 == NumberOf(ps[1])
                    p2 == NumberOf(ps[2])
                    y == RuleYear(NumberOf(ps[3]))
                    m == RuleMonth(p1, p2)
                    d == RuleDay(p1, p2)
                IN  /\ ts # Null =>
                        /\ m \in 1..12 /\ d \in 1..31 /\ IsTime(timeStr)
                        /\ ts = <<MidnightOf(y, m, d) + ClockOf(timeStr)>>
                    /\ IsCalendarDate(y, m, d) /\ IsTime(timeStr) => ts # Null
                    /\ ps \in {<<<<"1", "5">>, <<"0", "3">>, <<"2", "4">>>>,
                               <<<<"0", "3">>, <<"1", "5">>, <<"2", "4">>>>}
                       /\ timeStr = "10:00" => ts = <<1710496800>>

\* C8 witness: "15/03/24" at 10:00 is 15 March 2024, 10:00 (second branch).
C8_Witness ==
    /\ pc = "returned"
    /\ dateStr = <<"1", "5", "/", "0", "3", "/", "2", "4">>
    /\ timeStr = "10:00"
    /\ ts = <<1710496800>>

\* C9: parseTimestamp returns null whenever an input is empty, the date text has
\* fewer than three parts or one of its three parts is not a number, or year, month,
\* day and time are no valid calendar date and time (month 13, day 31 of a 30-day
\* month).  Stated for the engine that rejects a day past the end of the month, the
\* case most favourable to the claim.
C9_NullOnMalformedInput ==
    pc = "returned" /\ ~ lenientDays =>
        \/ ts = Null
        \/ /\ dateStr # <<>> /\ timeStr # ""
           /\ \E ps \in ThreeNumericParts :
                  /\ StartsWithParts(dateStr, ps)
                  /\ IsCalendarDate(RuleYear(NumberOf(ps[3])),
                                    RuleMonth(NumberOf(ps[1]), NumberOf(ps[2])),
                                    RuleDay(NumberOf(ps[1]), NumberOf(ps[2])))
                  /\ IsTime(timeStr)

----------------------------------------------------------------------------
(* Statements about buildDataStructure, written from the tables            *)

\* the (table, row, column) places of the input
Places ==
    {pl \in (1..Len(tables)) \X (1..MaxRows + 1) \X (1..5) :
        /\ pl[2] <= Len(tables[pl[1]])
        /\ pl[3] <= Len(tables[pl[1]][pl[2]])}

RowAt(pl) == tables[pl[1]][pl[2]]
EntryAt(pl) == RowAt(pl)[pl[3]]

\* the row's timestamp resolves
Resolves(row) == parseTimestamp(DateOfRow(row), TimeOfRow(row)) # Null

\* the accepted places: a row whose timestamp resolves and a cell that is not
\* empty and is a number, in a column that carries a machine code and is not
\* named like a date or time column
AcceptedPlaces ==
    {pl \in Places :
        /\ Resolves(RowAt(pl))
        /\ EntryAt(pl).cell # ""
        /\ parseFloat(EntryAt(pl).cell) # NaN
        /\ MotorOfColumn(EntryAt(pl).col) # Null
        /\ ~ IsDateTimeColumn(EntryAt(pl).col)}

AcceptedFor(id) == {pl \in AcceptedPlaces : MotorOfColumn(EntryAt(pl).col) = <<id>>}

\* the places the claim counts: a row whose timestamp resolves and a cell that is
\* not empty and is a number, in a column that carries a machine code
PlacesWithMachineCode ==
    {pl \in Places :
        /\ Resolves(RowAt(pl))
        /\ EntryAt(pl).cell # ""
        /\ parseFloat(EntryAt(pl).cell) # NaN
        /\ MotorOfColumn(EntryAt(pl).col) # Null}

\* C10 as stated: every series is non-decreasing by t, and the points of all series
\* are as many as the rows with a resolvable timestamp times their non-empty,
\* numerically parseable cells in columns that carry a machine code.
C10_CountsEveryMachineColumn ==
    pc = "returned" =>
        /\ \A id \in DOMAIN motorData :
               \A i \in 1..(Len(motorData[id]) - 1) :
                   motorData[id][i].t <= motorData[id][i + 1].t
        /\ Cardinality({<<id, i>> \in (DOMAIN motorData) \X (1..(5 * (MaxRows + 1))) :
                            i <= Len(motorData[id])})
               = Cardinality(PlacesWithMachineCode)

\* C10, amended: every series is non-decreasing by t, and the points are as many
\* as the accepted (row, column) combinations, per machine and in total, where a
\* column named like a date or time column is not accepted even when it carries a
\* machine code; rows of several tables are united without deduplication.
C10_SortedAndCounted ==
    pc = "returned" =>
        /\ \A id \in DOMAIN motorData :
               \A i \in 1..(Len(motorData[id]) - 1) :
                   motorData[id][i].t <= motorData[id][i + 1].t
        /\ DOMAIN motorData = {id \in {1, 23, 24} : AcceptedFor(id) # {}}
        /\ \A id \in DOMAIN motorData :
               Len(motorData[id]) = Cardinality(AcceptedFor(id))

\* C10 witness: rows of two tables, the later instant first, give motor 1 a series
\* of four points in time order, two at each of two instants, while other places
\* of the input are skipped.
C10_Witness ==
    /\ pc = "returned"
    /\ Len(tables[1]) = 2 /\ Len(tables[2]) = 1
    /\ tables[2][1][1].cell = Mar04
    /\ 1 \in DOMAIN motorData
    /\ Len(motorData[1]) = 4
    /\ motorData[1][1].t = motorData[1][2].t
    /\ motorData[1][2].t < motorData[1][3].t
    /\ motorData[1][3].t = motorData[1][4].t
    /\ Cardinality(Places) > Cardinality(AcceptedPlaces)

\* the rows of the input, by table and position
RowPlaces ==
    {rp \in (1..Len(tables)) \X (1..MaxRows + 1) : rp[2] <= Len(tables[rp[1]])}

\* the timestamps of the rows whose timestamp resolves
ResolvedTimes ==
    {parseTimestamp(DateOfRow(tables[rp[1]][rp[2]]), TimeOfRow(tables[rp[1]][rp[2]]))[1] :
        rp \in {q \in RowPlaces : Resolves(tables[q[1]][q[2]])}}

Earliest(S) == CHOOSE t \in S : \A u \in S : t <= u
Latest(S) == CHOOSE t \in S : \A u \in S : t >= u

\* the input without the rows whose timestamp fails to resolve
ResolvedRowsOnly == [k \in 1..Len(tables) |-> SelectSeq(tables[k], Resolves)]

\* C11: after buildDataStructure every sample point lies between minTime and
\* maxTime; the bounds are the earliest and the latest timestamp over every row
\* whose timestamp resolves, whether or not the row yields a sample; the rows whose
\* timestamp fails to resolve change neither the bounds nor any series; and with
\* no resolving row the bounds are the sentinels +infinity and -infinity.
C11_BoundsFromResolvedRows ==
    pc = "returned" =>
        /\ \A id \in DOMAIN motorData :
               \A i \in 1..Len(motorData[id]) :
                   /\ minTime # Infinity /\ maxTime # NegInfinity
                   /\ minTime.v <= motorData[id][i].t
                   /\ motorData[id][i].t <= maxTime.v
        /\ ResolvedTimes # {} =>
               /\ minTime = [v |-> Earliest(ResolvedTimes)]
               /\ maxTime = [v |-> Latest(ResolvedTimes)]
        /\ ResolvedTimes = {} =>
               /\ minTime = Infinity /\ maxTime = NegInfinity
               /\ motorData = <<>>
        /\ buildDataStructure(ResolvedRowsOnly)
               = [motorData |-> motorData, minTime |-> minTime, maxTime |-> maxTime]

\* C11 witness: one row gives a sample, a later row resolves and gives none, a
\* third row does not resolve: maxTime is the later row's instant, past every
\* sample point.
C11_Witness ==
    /\ pc = "returned"
    /\ \E rp \in RowPlaces : ~ Resolves(tables[rp[1]][rp[2]])
    /\ DOMAIN motorData = {1}
    /\ Len(motorData[1]) = 1
    /\ minTime = [v |-> motorData[1][1].t]
    /\ maxTime # NegInfinity
    /\ maxTime.v > motorData[1][1].t

----------------------------------------------------------------------------
(* Statements about the page: the rates loaded from the store, the summary  *)
(* panel, repeated calls                                                    *)

RNonNeg(a) == a.n >= 0

Elements(list) == {list[i] : i \in 1..Len(list)}

\* the sum of f over the set S
RECURSIVE SumOf(_, _)
SumOf(f, S) ==
    IF S = {} THEN RZero
    ELSE LET x == CHOOSE y \in S : TRUE
         IN  RAdd(f[x], SumOf(f, S \ {x}))

\* the machines with at least one sample anywhere
MachinesWithData == {id \in DOMAIN motorData : Len(motorData[id]) > 0}

\* computeMetrics of every machine with data, for the window of the last update
MetricsOfMachine ==
    [id \in MachinesWithData |->
        MetricsAt(motorData[id], startTime, endTime, dieselPrice, dieselConsumption)]

\* C3: whatever tables were ingested, whatever the window and whatever rates were
\* loaded from the store, the saved litres, the saved currency and the monthly
\* projection returned by computeMetrics are never negative.
C3_SavingsNeverNegative ==
    pc = "ready" =>
        \A id \in MachinesWithData :
            /\ RNonNeg(MetricsOfMachine[id].economiaLitros)
            /\ RNonNeg(MetricsOfMachine[id].economiaRS)
            /\ RNonNeg(MetricsOfMachine[id].economiaMes)

C6_TotalsOverHeatingAndOverAll ==
    pc = "ready" =>
        LET heating == Elements(summary.heatingMotors)
        IN  /\ heating \subseteq MachinesWithData
            /\ summary.totalLitrosHeating
                   = SumOf([id \in heating |-> MetricsOfMachine[id].economiaLitros],
                           heating)
            /\ summary.totalRSHeating
                   = SumOf([id \in heating |-> MetricsOfMachine[id].economiaRS],
                           heating)
            /\ summary.totalMonthlyProjection
                   = SumOf([id \in MachinesWithData |->
                               MetricsOfMachine[id].economiaMes],
                           MachinesWithData)

\* the window the next updateChart() reads is the window of the last one
SameWindow == InputTime(startInput) = startTime /\ InputTime(endInput) = endTime

\* C7: no call of the metric and summary computations changes the series map, the
\* heating flags or the two rates, and a call made with the window of the call
\* before it gives the same summary and, for every motor selected in both, the
\* same metrics.
C7_RepeatableAndWithoutSideEffects ==
    [][pc = "ready" =>
          /\ motorData' = motorData
          /\ heatingData' = heatingData
          /\ dieselPrice' = dieselPrice
          /\ dieselConsumption' = dieselConsumption
          /\ SameWindow =>
                 /\ summary' = summary
                 /\ \A motorId \in activeMotors \cap activeMotors' :
                        cards'[motorId] = cards[motorId]]_vars

\* C7 witness: the first motor was deselected after the page loaded, so a second
\* updateChart() has run with the window of the first, and the panel shows
\* savings of a heating machine and a monthly projection that are not zero.
C7_Witness ==
    /\ pc = "ready"
    /\ SameWindow
    /\ startTime # NaN /\ endTime # NaN
    /\ MachinesWithData # {}
    /\ activeMotors = {}
    /\ summary.heatingMotors # <<>>
    /\ summary.totalRSHeating # RZero
    /\ summary.totalMonthlyProjection # RZero

\* C13: when init has run on data that gave samples, the window written to the two
\* inputs (minTime and maxTime to the minute, seconds omitted) and read back by
\* updateChart contains every sample: start <= t <= end for every point of every
\* series.
C13_InitialWindowContainsEverySample ==
    [][pc = "loading" /\ pc' = "ready" =>
          \A id \in DOMAIN motorData' :
              \A i \in 1..Len(motorData'[id]) :
                  /\ startTime' # NaN /\ endTime' # NaN
                  /\ startTime'[1] <= motorData'[id][i].t
                  /\ motorData'[id][i].t <= endTime'[1]]_vars

----------------------------------------------------------------------------
(* Statements about the data page                                           *)

\* the press found at least one file
PressedWithFiles == pc \in {"reading", "navigated"}

\* C12: for one press of the submit button with at least one file selected, under
\* every order of the load and error events of the reads it started, proceed() has
\* run (stored, then navigated) exactly when every started read has fired its
\* event, it never runs a second time, and pending never goes below zero.
C12_ProceedOnceAfterAllReads ==
    /\ pending >= 0
    /\ navigations <= 1
    /\ PressedWithFiles =>
           /\ pending = Cardinality(reading)
           /\ navigations = 1 <=> reading = {}
           /\ navigations = 1 <=> pc = "navigated"
           /\ navigations = 1 =>
                  /\ store.hasData
                  /\ DOMAIN results = GroupKeys
                  /\ store.groups = [key \in GroupKeys |-> results[key]]
    /\ ~ PressedWithFiles => navigations = 0 /\ store = EmptyStore

\* C12 witness: three files were selected; one read ended in an error, two loaded,
\* and proceed() has stored the two texts and navigated.
C12_Witness ==
    /\ pc = "navigated"
    /\ navigations = 1
    /\ pending = 0
    /\ files[1] = Some(Some(<<RowMar15>>)) /\ store.groups[1] = Some(<<RowMar15>>)
    /\ files[2] = Some(Some(<<RowMar15>>)) /\ store.groups[2] = BlankText
    /\ files[3] = Some(BlankText)
    /\ files[4] = Null

=============================================================================
